---- MODULE Spec2Model ----
(***************************************************************************)
(* Commit heatmap viewer (src/123.py): the author lister, the commit date  *)
(* collector, the calendar grid builder plot_year and the HeatmapApp       *)
(* session, with the properties the specification states about them.       *)
(*                                                                         *)
(* Texts are sequences of tokens: a token is a delimiter character         *)
(* (" ", "\t", "\n", "<", ">"), a digit, or a word holding no delimiter.   *)
(* A pandas Timestamp is the number of days since 1970-01-01.              *)
(***************************************************************************)
EXTENDS Integers, Sequences, FiniteSets, TLC

VARIABLES
    authors,            \* HeatmapApp.authors: list of (count, author_str)
    vars,               \* HeatmapApp.vars: list of (IntVar value, author_str)
    data,               \* HeatmapApp.data: DataFrame of (date, count)
    years,              \* HeatmapApp.years
    current_year_idx,   \* HeatmapApp.current_year_idx (0-based)
    current_fig,        \* HeatmapApp.current_fig
    canvas,             \* HeatmapApp.canvas: "none", "drawn", "destroyed"
    buttons,            \* state of show_btn, prev_btn, next_btn, save_btn
    status_var,         \* HeatmapApp.status_var
    dialog,             \* the message box the last action raised, if any
    files,              \* the file savefig wrote last: its name and figure
    call,               \* the function call in progress (pure-function runs)
    proc,               \* the git log subprocess: its stdout and read position
    date_counts,        \* get_commit_counts_for_authors: the running dict
    ret                 \* the value or exception a call ended with

state == <<authors, vars, data, years, current_year_idx, current_fig, canvas,
           buttons, status_var, dialog, files, call, proc, date_counts, ret>>

\* Python's None where a record may stand (a figure, a canvas)
None == [none |-> TRUE]

\* a call's outcome: not ended yet, a returned value, or a raised exception
Pending   == [done |-> FALSE]
Return(v) == [done |-> TRUE, raised |-> FALSE, value |-> v]
Raise(e)  == [done |-> TRUE, raised |-> TRUE, error |-> e]

----------------------------------------------------------------------------
(* Bounds of the model *)

MinYear   == 2010   \* first target year of the grid builder runs
YearSpan  == 5      \* target years are MinYear .. MinYear + YearSpan
MaxCount  == 3      \* a series entry's count is 1 or MaxCount
MaxLen    == 2      \* entries of a series given to plot_year
MaxLines  == 3      \* lines of a git log stream / of a shortlog output
MaxCommits == 2     \* commits of the history a session reads

----------------------------------------------------------------------------
(* Generic helpers *)

Max(S) == CHOOSE x \in S : \A y \in S : y <= x

RECURSIVE SumOver(_, _)
SumOver(f, S) ==
    IF S = {} THEN 0
    ELSE LET x == CHOOSE x \in S : TRUE IN f[x] + SumOver(f, S \ {x})

\* the sum of f over S (the zero terms are left out before adding up)
SumSet(f, S) == SumOver(f, {x \in S : f[x] # 0})

RECURSIVE SumSeq(_)
SumSeq(s) == IF s = <<>> THEN 0 ELSE Head(s) + SumSeq(Tail(s))

Range(s) == {s[i] : i \in DOMAIN s}

----------------------------------------------------------------------------
(* pandas Timestamp arithmetic (proleptic Gregorian calendar) *)

\* the year, month and day fields of a "YYYY-MM-DD" token of the model
date_fields(token) ==
    CASE token = "2011-01-01" -> <<2011, 1, 1>>
      [] token = "2011-12-31" -> <<2011, 12, 31>>
      [] token = "2012-12-30" -> <<2012, 12, 30>>
      [] token = "2013-03-15" -> <<2013, 3, 15>>

\* the Timestamp of the fields <<y, m, d>>, as days since 1970-01-01
to_datetime(date) ==
    LET y   == IF date[2] <= 2 THEN date[1] - 1 ELSE date[1]
        era == y \div 400
        yoe == y - era * 400
        mp  == IF date[2] > 2 THEN date[2] - 3 ELSE date[2] + 9
        doy == (153 * mp + 2) \div 5 + date[3] - 1
        doe == yoe * 365 + yoe \div 4 - yoe \div 100 + doy
    IN era * 146097 + doe - 719468

\* the civil date <<y, m, d>> of a Timestamp
civil(t) ==
    LET z   == t + 719468
        era == z \div 146097
        doe == z - era * 146097
        yoe == (doe - doe \div 1460 + doe \div 36524 - doe \div 146096) \div 365
        doy == doe - (365 * yoe + yoe \div 4 - yoe \div 100)
        mp  == (5 * doy + 2) \div 153
        d   == doy - (153 * mp + 2) \div 5 + 1
        m   == IF mp < 10 THEN mp + 3 ELSE mp - 9
        y   == yoe + era * 400
    IN <<IF m <= 2 THEN y + 1 ELSE y, m, d>>

dt_year(t)  == civil(t)[1]
dt_month(t) == civil(t)[2]

\* Series.dt.weekday: Monday = 0 .. Sunday = 6 (1970-01-01 was a Thursday)
dt_weekday(t) == (t + 3) % 7

\* Series.dt.isocalendar().week: the week of the Thursday of t's Monday-week
isocalendar_week(t) ==
    LET thursday == t - dt_weekday(t) + 3
        jan1     == to_datetime(<<dt_year(thursday), 1, 1>>)
    IN (thursday - jan1) \div 7 + 1

\* pd.date_range(start, end, freq='D')
date_range(start, end) == to_datetime(start) .. to_datetime(end)

----------------------------------------------------------------------------
(* DataFrames of (date, count) rows *)

\* pd.DataFrame(rows, columns=['date', 'count']): pandas infers the dtype of
\* the date column from the rows; with no row the column has dtype object.
DataFrame(rows) ==
    [date_dtype |-> IF rows = <<>> THEN "object" ELSE "datetime64",
     rows       |-> rows]

\* DataFrame.empty
empty(df) == df.rows = <<>>

----------------------------------------------------------------------------
(* plot_year: the calendar grid builder *)

VmaxFloor == 5


\* df[df['date'].dt.year == year]
filter_year(df, year) == SelectSeq(df.rows, LAMBDA r : dt_year(r.date) = year)

\* df_year.groupby('date')['count'].sum()
groupby_sum(rows) ==
    [d \in {r.date : r \in Range(rows)} |->
        SumSeq([i \in DOMAIN SelectSeq(rows, LAMBDA r : r.date = d) |->
                    SelectSeq(rows, LAMBDA r : r.date = d)[i].count])]

\* the left join of the full date range with the grouped counts, fillna(0)
merge_left(full_dates, grouped) ==
    [d \in full_dates |-> IF d \in DOMAIN grouped THEN grouped[d] ELSE 0]

\* Sun = 0, Mon = 1, ... Sat = 6
weekday_of(t) == (dt_weekday(t) + 1) % 7

\* df_year['date'].dt.isocalendar().week, before the December correction
week_column(full_dates) == [d \in full_dates |-> isocalendar_week(d)]

\* A variant of corrected_week without the December reassignment.
corrected_week_plain_iso(d, week, max_week) == week[d]

\* days in late December that belong to week 1 of the next year get max_week + 1
corrected_week(d, week, max_week) ==
    IF dt_month(d) = 12 /\ week[d] = 1 THEN max_week + 1 ELSE week[d]

\* lines 83-84: max_week is taken before any week is reassigned
december_correction(full_dates, week) ==
    [d \in full_dates |-> corrected_week(d, week, Max(Range(week)))]

\* the date, weekday and week columns of df_year and the columns of the pivot
layout_columns(full_dates, week) ==
    [full_dates |-> full_dates,
     weekday    |-> [d \in full_dates |-> weekday_of(d)],
     week       |-> week,
     columns    |-> Range(week)]

\* lines 72, 79-84: these columns depend on the year alone
year_layout(year) ==
    layout_columns(date_range(<<year, 1, 1>>, <<year, 12, 31>>),
                   december_correction(date_range(<<year, 1, 1>>, <<year, 12, 31>>),
                       week_column(date_range(<<year, 1, 1>>, <<year, 12, 31>>))))

\* the layouts of the years the model's dates lie in, computed once
LayoutYears == MinYear - 1 .. MinYear + YearSpan + 1
Layouts     == [year \in LayoutYears |-> year_layout(year)]

\* max(5, df_year['count'].max())
color_cap(count) ==
    LET m == Max(Range(count)) IN IF m > VmaxFloor THEN m ELSE VmaxFloor

\* pivot_table(index='weekday', columns='week', aggfunc='sum').fillna(0),
\* then reindex(range(7), fill_value=0); rows of count 0 add nothing to a sum
pivot_table(layout, count) ==
    LET counted == {d \in layout.full_dates : count[d] # 0}
    IN [c \in (0 .. 6) \X layout.columns |->
           SumSet(count, {d \in counted :
                            layout.weekday[d] = c[1] /\ layout.week[d] = c[2]})]

\* lines 86-105: the figure is the grid (pivot over its columns) and the
\* color-scale cap given to the renderer
grid_figure(year, layout, count) ==
    Return([year    |-> year,
            columns |-> layout.columns,
            pivot   |-> pivot_table(layout, count),
            vmax    |-> color_cap(count)])

\* reading .dt of a date column of dtype object raises AttributeError
plot_year(df, year) ==
    IF df.date_dtype # "datetime64" THEN Raise("AttributeError")
    ELSE grid_figure(year, Layouts[year],
                     merge_left(date_range(<<year, 1, 1>>, <<year, 12, 31>>),
                                groupby_sum(filter_year(df, year))))

----------------------------------------------------------------------------
(* Texts: str.strip, str.split, int, re.search *)

\* The characters str.strip() removes and int() ignores at both ends: those
\* with str.isspace(), U+0009..U+000D, U+001C..U+001F, U+0020, U+0085, U+00A0,
\* U+1680. (The remaining ones, U+2000..U+200A, U+2028, U+2029, U+202F, U+205F
\* and U+3000, cannot be written in a string here, so no text has them.)
Whitespace ==
    {"\t", "\n", "", "\f", "\r", "", "", "", "", " ",
     "", " ", " "}

\* The decimal digits int() reads, by script: row k holds the digits 0..9 of one
\* script (ASCII first, then the Unicode Nd digits a string here can hold).
DecimalDigits ==
    << <<"0", "1", "2", "3", "4", "5", "6", "7", "8", "9">>,
       <<"۰", "۱", "۲", "۳", "۴", "۵", "۶", "۷", "۸", "۹">>,
       <<"߀", "߁", "߂", "߃", "߄", "߅", "߆", "߇", "߈", "߉">>,
       <<"০", "১", "২", "৩", "৪", "৫", "৬", "৭", "৮", "৯">>,
       <<"૦", "૧", "૨", "૩", "૪", "૫", "૬", "૭", "૮", "૯">>,
       <<"௦", "௧", "௨", "௩", "௪", "௫", "௬", "௭", "௮", "௯">>,
       <<"೦", "೧", "೨", "೩", "೪", "೫", "೬", "೭", "೮", "೯">>,
       <<"෦", "෧", "෨", "෩", "෪", "෫", "෬", "෭", "෮", "෯">>,
       <<"໐", "໑", "໒", "໓", "໔", "໕", "໖", "໗", "໘", "໙">>,
       <<"႐", "႑", "႒", "႓", "႔", "႕", "႖", "႗", "႘", "႙">>,
       <<"០", "១", "២", "៣", "៤", "៥", "៦", "៧", "៨", "៩">>,
       <<"᧐", "᧑", "᧒", "᧓", "᧔", "᧕", "᧖", "᧗", "᧘", "᧙">>,
       <<"᪀", "᪁", "᪂", "᪃", "᪄", "᪅", "᪆", "᪇", "᪈", "᪉">>,
       <<"᪐", "᪑", "᪒", "᪓", "᪔", "᪕", "᪖", "᪗", "᪘", "᪙">>,
       <<"᮰", "᮱", "᮲", "᮳", "᮴", "᮵", "᮶", "᮷", "᮸", "᮹">>,
       <<"꣐", "꣑", "꣒", "꣓", "꣔", "꣕", "꣖", "꣗", "꣘", "꣙">>,
       <<"꧐", "꧑", "꧒", "꧓", "꧔", "꧕", "꧖", "꧗", "꧘", "꧙">>,
       <<"꧰", "꧱", "꧲", "꧳", "꧴", "꧵", "꧶", "꧷", "꧸", "꧹">>,
       <<"꯰", "꯱", "꯲", "꯳", "꯴", "꯵", "꯶", "꯷", "꯸", "꯹">> >>

Digits == UNION {{DecimalDigits[k][n] : n \in 1 .. 10} : k \in DOMAIN DecimalDigits}

RECURSIVE lstrip(_)
lstrip(s) == IF s # <<>> /\ Head(s) \in Whitespace THEN lstrip(Tail(s)) ELSE s

RECURSIVE rstrip(_)
rstrip(s) ==
    IF s # <<>> /\ s[Len(s)] \in Whitespace THEN rstrip(SubSeq(s, 1, Len(s) - 1)) ELSE s

\* str.strip()
strip(s) == rstrip(lstrip(s))

\* the index of the first sep in s, 0 when there is none
find(s, sep) ==
    IF \E i \in DOMAIN s : s[i] = sep
    THEN CHOOSE i \in DOMAIN s : s[i] = sep /\ \A j \in 1 .. i - 1 : s[j] # sep
    ELSE 0

\* str.split(sep, 1): at most two parts
split1(s, sep) ==
    LET i == find(s, sep)
    IN IF i = 0 THEN <<s>> ELSE <<SubSeq(s, 1, i - 1), SubSeq(s, i + 1, Len(s))>>

\* str.split(sep): every part
RECURSIVE split(_, _)
split(s, sep) ==
    LET i == find(s, sep)
    IN IF i = 0 THEN <<s>>
       ELSE <<SubSeq(s, 1, i - 1)>> \o split(SubSeq(s, i + 1, Len(s)), sep)

\* the value of a decimal digit
DigitValue(c) ==
    CHOOSE n \in 0 .. 9 : \E k \in DOMAIN DecimalDigits : DecimalDigits[k][n + 1] = c

RECURSIVE digits_value(_)
digits_value(s) ==
    IF s = <<>> THEN 0
    ELSE 10 * digits_value(SubSeq(s, 1, Len(s) - 1)) + DigitValue(s[Len(s)])

\* int(text), base 10: whitespace at both ends is ignored; then an optional
\* sign, and decimal digits with single underscores allowed between two digits.
\* Anything else raises ValueError.
int(s) ==
    LET t      == strip(s)
        signed == t # <<>> /\ t[1] \in {"+", "-"}
        body   == IF signed THEN Tail(t) ELSE t
        valid  == /\ body # <<>>
                  /\ \A i \in DOMAIN body :
                        \/ body[i] \in Digits
                        \/ /\ body[i] = "_"
                           /\ 1 < i /\ i < Len(body)
                           /\ body[i - 1] \in Digits
                           /\ body[i + 1] \in Digits
        value  == digits_value(SelectSeq(body, LAMBDA c : c \in Digits))
    IN IF ~valid THEN Raise("ValueError")
       ELSE IF signed /\ t[1] = "-" THEN Return(0 - value)
       ELSE Return(value)

\* re.search(r'<([^>]+)>', s): the leftmost match and its group 1
re_search_email(s) ==
    LET Match(i) == /\ s[i] = "<"
                    /\ \E j \in i + 2 .. Len(s) :
                          /\ s[j] = ">"
                          /\ \A k \in i + 1 .. j - 1 : s[k] # ">"
        starts == {i \in DOMAIN s : Match(i)}
    IN IF starts = {} THEN [matched |-> FALSE]
       ELSE LET i == CHOOSE i \in starts : \A k \in starts : i <= k
                j == CHOOSE j \in i + 2 .. Len(s) :
                        s[j] = ">" /\ \A k \in i + 1 .. j - 1 : s[k] # ">"
            IN [matched |-> TRUE, group1 |-> SubSeq(s, i + 1, j - 1)]

\* every sequence over S of length at most n
SeqsUpTo(S, n) == UNION {[1 .. k -> S] : k \in 0 .. n}

RECURSIVE Concat(_)
Concat(ss) == IF ss = <<>> THEN <<>> ELSE Head(ss) \o Concat(Tail(ss))

----------------------------------------------------------------------------
(* The session state after HeatmapApp.__init__, and the idle call state *)

AppInit ==
    /\ authors = <<>>
    /\ vars = <<>>
    /\ data = DataFrame(<<>>)
    /\ years = <<>>
    /\ current_year_idx = 0
    /\ current_fig = None
    /\ canvas = "none"
    /\ buttons = [show |-> "disabled", prev |-> "disabled",
                  next |-> "disabled", save |-> "disabled"]
    /\ status_var = <<>>
    /\ dialog = "none"
    /\ files = None

\* no subprocess started
NoProc == [opened |-> FALSE]

appvars == <<authors, vars, data, years, current_year_idx, current_fig, canvas,
             buttons, status_var, dialog, files>>

----------------------------------------------------------------------------
(* Runs of plot_year on a series and a target year *)

TargetYears == MinYear .. MinYear + YearSpan

\* the dates a series entry may carry when the target year is year: the first
\* day, a day in March and the last two days of the year, and a day outside it
SeriesDates(year) ==
    {to_datetime(d) : d \in {<<year, 1, 1>>, <<year, 3, 15>>, <<year, 12, 30>>,
                             <<year, 12, 31>>, <<year + 1, 1, 1>>}}

SeriesRows(year) ==
    SeqsUpTo([date : SeriesDates(year), count : {1, MaxCount}], MaxLen)

GridInit ==
    /\ AppInit
    /\ \E year \in TargetYears : \E rows \in SeriesRows(year) :
          call = [fn |-> "plot_year", df |-> DataFrame(rows), year |-> year]
    /\ proc = NoProc
    /\ date_counts = <<>>
    /\ ret = Pending

CallPlotYear ==
    /\ call.fn = "plot_year" /\ ret = Pending
    /\ ret' = plot_year(call.df, call.year)
    /\ UNCHANGED <<appvars, call, proc, date_counts>>

GridNext == CallPlotYear

SpecGrid == GridInit /\ [][GridNext]_state

----------------------------------------------------------------------------
(* Properties of plot_year, stated on the runs of SpecGrid *)

GridRun  == call.fn = "plot_year" /\ ret.done
GridBuilt == GridRun /\ ~ret.raised

\* the entries of the run's series whose date lies in the target year
EntriesInYear == SelectSeq(call.df.rows, LAMBDA r : civil(r.date)[1] = call.year)

CountsInYear == [i \in DOMAIN EntriesInYear |-> EntriesInYear[i].count]

DatesInYear == {r.date : r \in Range(EntriesInYear)}

\* The column the specification gives a date of a year: its ISO week, but for
\* a December date of ISO week 1 the largest week of the other dates plus one.
DecemberWeekOne(d) == civil(d)[2] = 12 /\ isocalendar_week(d) = 1

SpecColumn ==
    [year \in LayoutYears |->
        LET days   == to_datetime(<<year, 1, 1>>) .. to_datetime(<<year, 12, 31>>)
            others == {isocalendar_week(d) : d \in {e \in days : ~DecemberWeekOne(e)}}
        IN [d \in days |-> IF DecemberWeekOne(d) THEN Max(others) + 1
                           ELSE isocalendar_week(d)]]

SpecWeekday(d) == (((d + 3) % 7) + 1) % 7

\* C1: whatever the series (dates outside the year, duplicate dates),
\* plot_year builds a grid that has the weekday axis {0..6} and whose cells add
\* up to the counts of the entries of the series whose date lies in the target
\* year.
C1_AxisAndSum ==
    GridRun =>
        /\ ~ret.raised
        /\ {c[1] : c \in DOMAIN ret.value.pivot} = 0 .. 6
        /\ SumSet(ret.value.pivot, DOMAIN ret.value.pivot) = SumSeq(CountsInYear)

\* The same on the runs that build a grid (every non-empty series).
BuiltAxisAndSum ==
    GridBuilt =>
        /\ {c[1] : c \in DOMAIN ret.value.pivot} = 0 .. 6
        /\ SumSet(ret.value.pivot, DOMAIN ret.value.pivot) = SumSeq(CountsInYear)

\* the counts of the entries of the target year that SpecColumn puts in cell c
SpecCellSum(c) ==
    LET here == SelectSeq(EntriesInYear, LAMBDA r :
                    <<SpecWeekday(r.date), SpecColumn[call.year][r.date]>> = c)
    IN SumSeq([i \in DOMAIN here |-> here[i].count])

\* C2: the grid holds every entry of the target year in the cell of its
\* weekday and of the column SpecColumn gives its date: a December date of ISO
\* week 1 in the column after the largest week of the other dates, never in
\* column 1; every other date in the column of its ISO week.
C2_DecemberWeekOneAppended ==
    GridBuilt =>
        LET col == SpecColumn[call.year]
        IN /\ ret.value.columns = Range(col)
           /\ \A c \in DOMAIN ret.value.pivot : ret.value.pivot[c] = SpecCellSum(c)
           /\ \A d \in DatesInYear :
                 DecemberWeekOne(d) =>
                    /\ col[d] # 1
                    /\ ret.value.pivot[<<SpecWeekday(d), col[d]>>] > 0

\* a grid was built for a series with a count on a December day of ISO week 1,
\* and the count stands in the appended column
C2_Witness ==
    /\ GridBuilt
    /\ \E d \in DatesInYear :
          /\ DecemberWeekOne(d)
          /\ SpecColumn[call.year][d] >= 53
          /\ ret.value.pivot[<<SpecWeekday(d), SpecColumn[call.year][d]>>] > 0

\* C3: for a target year the series has no entry in, plot_year does not fail
\* and the grid has every cell a day of the year maps to, each equal to 0.
C3_ZeroDataGrid ==
    (GridRun /\ EntriesInYear = <<>>) =>
        /\ ~ret.raised
        /\ DOMAIN ret.value.pivot = (0 .. 6) \X Range(SpecColumn[call.year])
        /\ \A c \in DOMAIN ret.value.pivot : ret.value.pivot[c] = 0

\* C9: the color-scale cap of the figure is max(5, largest cell of the grid),
\* so no cell exceeds the cap.
C9_CapCoversCells ==
    GridBuilt =>
        LET m == Max(Range(ret.value.pivot))
        IN /\ ret.value.vmax = (IF m > 5 THEN m ELSE 5)
           /\ \A c \in DOMAIN ret.value.pivot : ret.value.pivot[c] <= ret.value.vmax

\* C10: distinct dates of the target year stand in distinct cells: the grid has
\* as many non-zero cells as the series has dates in the target year.
C10_OneDayPerCell ==
    GridBuilt =>
        Cardinality({c \in DOMAIN ret.value.pivot : ret.value.pivot[c] # 0})
            = Cardinality(DatesInYear)

----------------------------------------------------------------------------
(* get_authors: the author lister *)

DefaultMinCommits == 10

\* A variant of authors_line that keeps only counts above the threshold.
authors_line_strictly_above(acc, line, min_commits) ==
    IF strip(line) = <<>> THEN acc
    ELSE LET parts == split1(strip(line), "\t")
         IN IF Len(parts) # 2 THEN acc
            ELSE LET count == int(strip(parts[1]))
                 IN IF count.raised THEN acc
                    ELSE IF count.value > min_commits
                         THEN Append(acc, <<count.value, strip(parts[2])>>)
                         ELSE acc

\* the loop body of get_authors: the authors list after one more line
authors_line(acc, line, min_commits) ==
    IF strip(line) = <<>> THEN acc
    ELSE LET parts == split1(strip(line), "\t")
         IN IF Len(parts) # 2 THEN acc
            ELSE LET count == int(strip(parts[1]))
                 IN IF count.raised THEN acc
                    ELSE IF count.value >= min_commits
                         THEN Append(acc, <<count.value, strip(parts[2])>>)
                         ELSE acc

RECURSIVE authors_loop(_, _, _)
authors_loop(acc, lines, min_commits) ==
    IF lines = <<>> THEN acc
    ELSE authors_loop(authors_line(acc, Head(lines), min_commits), Tail(lines), min_commits)

\* result is the CompletedProcess of git shortlog -sne
get_authors(result, min_commits) ==
    IF result.returncode # 0 THEN Raise("RuntimeError")
    ELSE Return(authors_loop(<<>>, split(strip(result.stdout), "\n"), min_commits))

----------------------------------------------------------------------------
(* Runs of get_authors on the output of git shortlog -sne *)

\* The lines the shortlog output is made of: an author's line (the count
\* right-aligned, a tab, the identity), and lines of another shape.
AuthorLine(count, identity) == <<" ", " ">> \o count \o <<"\t">> \o identity

Alice == <<"Alice", " ", "<", "a@x", ">">>
Bob   == <<"Bob", " ", "<", "b@x", ">">>
Carol == <<"Carol", " ", "<", ">">>

\* number is the integer the count text of an author line denotes
ShortlogEntries ==
    { [shape |-> "author",  count |-> <<"1", "5">>, number |-> 15, identity |-> Alice],
      [shape |-> "author",  count |-> <<"1", "0">>, number |-> 10, identity |-> Bob],
      [shape |-> "author",  count |-> <<"3">>,      number |-> 3,  identity |-> Carol],
      [shape |-> "author",  count |-> <<"+", "1", "1">>, number |-> 11, identity |-> Bob],
      [shape |-> "author",  count |-> <<"1", "_", "6">>, number |-> 16, identity |-> Carol],
      [shape |-> "no_tab",  count |-> <<"1", "5">>, number |-> 0,  identity |-> Bob],
      [shape |-> "bad_int", count |-> <<"1", "x">>, number |-> 0,  identity |-> Alice],
      [shape |-> "blank",   count |-> <<>>,         number |-> 0,  identity |-> <<>>] }

ShortlogLine(e) ==
    CASE e.shape = "author"  -> AuthorLine(e.count, e.identity)
      [] e.shape = "no_tab"  -> <<" ">> \o e.count \o <<" ">> \o e.identity
      [] e.shape = "bad_int" -> AuthorLine(e.count, e.identity)
      [] e.shape = "blank"   -> <<" ">>

\* the stdout of the command: every line ended by a newline
ShortlogOutput(entries) ==
    Concat([i \in DOMAIN entries |-> ShortlogLine(entries[i]) \o <<"\n">>])

Thresholds == {3, DefaultMinCommits, DefaultMinCommits + 1, 16}

AuthorsInit ==
    /\ AppInit
    /\ \E entries \in SeqsUpTo(ShortlogEntries, MaxLines) :
       \E rc \in {0, 128} : \E t \in Thresholds :
          call = [fn |-> "get_authors", entries |-> entries, min_commits |-> t,
                  result |-> [returncode |-> rc, stdout |-> ShortlogOutput(entries)]]
    /\ proc = NoProc
    /\ date_counts = <<>>
    /\ ret = Pending

CallGetAuthors ==
    /\ call.fn = "get_authors" /\ ret = Pending
    /\ ret' = get_authors(call.result, call.min_commits)
    /\ UNCHANGED <<appvars, call, proc, date_counts>>

AuthorsNext == CallGetAuthors

SpecAuthors == AuthorsInit /\ [][AuthorsNext]_state

\* the integer the count text of an author line denotes
CountOf(e) == e.number

\* the records the listing must hold: one per author line whose count reaches
\* the threshold, in the order of the lines
RECURSIVE ExpectedAuthors(_, _)
ExpectedAuthors(entries, t) ==
    IF entries = <<>> THEN <<>>
    ELSE LET e == Head(entries)
         IN (IF e.shape = "author" /\ CountOf(e) >= t
             THEN <<<<CountOf(e), e.identity>>>> ELSE <<>>)
            \o ExpectedAuthors(Tail(entries), t)

\* C5: get_authors returns, in the order of the lines, one (count, identity)
\* record per well-formed line whose count is >= the threshold and no other;
\* lines of another shape or with a count that is no integer are skipped; a
\* non-success status raises an error.
C5_ThresholdListing ==
    (call.fn = "get_authors" /\ ret.done) =>
        IF call.result.returncode # 0
        THEN ret.raised
        ELSE /\ ~ret.raised
             /\ ret.value = ExpectedAuthors(call.entries, call.min_commits)

\* a listing that kept an author at the threshold, dropped one below it and
\* skipped a malformed line
C5_Witness ==
    /\ call.fn = "get_authors" /\ ret.done /\ ~ret.raised
    /\ \E i, j, k \in DOMAIN call.entries :
          /\ call.entries[i].shape = "author"
          /\ CountOf(call.entries[i]) = call.min_commits
          /\ call.entries[j].shape = "author"
          /\ CountOf(call.entries[j]) < call.min_commits
          /\ call.entries[k].shape \in {"no_tab", "bad_int"}
    /\ Len(ret.value) = 1

----------------------------------------------------------------------------
(* get_commit_counts_for_authors: the commit date collector *)

\* date_counts[date] = date_counts.get(date, 0) + 1 on a dict kept as the
\* sequence of its (key, value) items in insertion order
dict_increment(items, key) ==
    IF \E i \in DOMAIN items : items[i][1] = key
    THEN [i \in DOMAIN items |->
            IF items[i][1] = key THEN <<key, items[i][2] + 1>> ELSE items[i]]
    ELSE Append(items, <<key, 1>>)

\* str.lower() on the tokens of the model
lower(text) == [i \in DOMAIN text |-> IF text[i] = "A@x" THEN "a@x" ELSE text[i]]

\* A variant of count_line that compares emails without regard to case.
count_line_ignoring_case(items, line, emails) ==
    IF strip(line) = <<>> THEN items
    ELSE LET parts == split1(strip(line), " ")
         IN IF Len(parts) # 2 THEN items
            ELSE IF lower(parts[2]) \in {lower(e) : e \in Range(emails)}
                 THEN dict_increment(items, parts[1])
                 ELSE items

\* the body of the loop over proc.stdout
count_line(items, line, emails) ==
    IF strip(line) = <<>> THEN items
    ELSE LET parts == split1(strip(line), " ")
         IN IF Len(parts) # 2 THEN items
            ELSE IF parts[2] \in Range(emails)
                 THEN dict_increment(items, parts[1])
                 ELSE items

\* the DataFrame built from the dict: one row per key, its date parsed
counts_frame(items) ==
    DataFrame([i \in DOMAIN items |->
                  [date  |-> to_datetime(date_fields(items[i][1][1])),
                   count |-> items[i][2]]])

RECURSIVE count_lines(_, _, _)
count_lines(items, lines, emails) ==
    IF lines = <<>> THEN items
    ELSE count_lines(count_line(items, Head(lines), emails), Tail(lines), emails)

\* the whole function on the lines of git log's output
get_commit_counts_for_authors(emails, lines) ==
    IF emails = <<>> THEN DataFrame(<<>>)
    ELSE counts_frame(count_lines(<<>>, lines, emails))

----------------------------------------------------------------------------
(* Runs of get_commit_counts_for_authors, one line of the stream at a time *)

DateTokens  == {"2011-01-01", "2011-12-31"}
EmailTexts  == {<<"a@x">>, <<"A@x">>, <<"b@x">>, <<>>}
Identities  == {<<>>, <<<<"a@x">>>>, <<<<"b@x">>>>, <<<<"a@x">>, <<"b@x">>>>}

\* a commit of the history, or a blank line in the output
Commits == [date : DateTokens, email : EmailTexts] \cup {[blank |-> TRUE]}

IsBlank(c) == "blank" \in DOMAIN c

\* git log --pretty=format:'%ad %ae' --date=short writes one line per commit
LogLine(c) ==
    IF IsBlank(c) THEN <<"\n">> ELSE <<c.date, " ">> \o c.email \o <<"\n">>

LogLines(commits) == [i \in DOMAIN commits |-> LogLine(commits[i])]

CollectInit ==
    /\ AppInit
    /\ \E commits \in SeqsUpTo(Commits, MaxLines) : \E emails \in Identities :
          call = [fn |-> "get_commit_counts_for_authors",
                  emails |-> emails, commits |-> commits, pc |-> "start"]
    /\ proc = NoProc
    /\ date_counts = <<>>
    /\ ret = Pending

\* lines 40-48: the early return, or the subprocess and the empty dict
CollectStart ==
    /\ call.fn = "get_commit_counts_for_authors" /\ call.pc = "start"
    /\ IF call.emails = <<>>
       THEN /\ ret' = Return(DataFrame(<<>>))
            /\ call' = [call EXCEPT !.pc = "returned"]
            /\ UNCHANGED <<proc, date_counts>>
       ELSE /\ proc' = [opened |-> TRUE, stdout |-> LogLines(call.commits),
                        read |-> 0, closed |-> FALSE]
            /\ call' = [call EXCEPT !.pc = "loop"]
            /\ UNCHANGED <<date_counts, ret>>
    /\ UNCHANGED appvars

\* lines 49-59: one iteration of the loop
CollectLine ==
    /\ call.fn = "get_commit_counts_for_authors" /\ call.pc = "loop"
    /\ proc.read < Len(proc.stdout)
    /\ date_counts' = count_line(date_counts, proc.stdout[proc.read + 1], call.emails)
    /\ proc' = [proc EXCEPT !.read = @ + 1]
    /\ UNCHANGED <<appvars, call, ret>>

\* lines 60-67: the stream is exhausted
CollectFinish ==
    /\ call.fn = "get_commit_counts_for_authors" /\ call.pc = "loop"
    /\ proc.read = Len(proc.stdout)
    /\ proc' = [proc EXCEPT !.closed = TRUE]
    /\ ret' = Return(counts_frame(date_counts))
    /\ call' = [call EXCEPT !.pc = "returned"]
    /\ UNCHANGED <<appvars, date_counts>>

CollectNext == CollectStart \/ CollectLine \/ CollectFinish

SpecCollect == CollectInit /\ [][CollectNext]_state

CollectDone == call.fn = "get_commit_counts_for_authors" /\ ret.done

\* the commits of the run that are well-formed records of date d by one of
\* the given identities
Matching(d) ==
    {i \in DOMAIN call.commits :
        /\ ~IsBlank(call.commits[i])
        /\ call.commits[i].email # <<>>
        /\ call.commits[i].date = d
        /\ \E k \in DOMAIN call.emails : call.emails[k] = call.commits[i].email}

\* the series the claim describes: a row per date with a matching record
SeriesAsClaimed ==
    {[date |-> to_datetime(date_fields(d)), count |-> Cardinality(Matching(d))] :
        d \in {e \in DateTokens : Matching(e) # {}}}

ResultAsClaimed ==
    /\ ~ret.raised
    /\ Range(ret.value.rows) = SeriesAsClaimed
    /\ Len(ret.value.rows) = Cardinality(SeriesAsClaimed)
    /\ call.emails = <<>> => ret.value.rows = <<>>

WholeStreamRead ==
    proc.opened /\ proc.read = Len(LogLines(call.commits)) /\ proc.closed

\* C4 as stated: for every stream and every identity set the whole stream is
\* consumed and the series counts, per date, the well-formed records of that
\* date whose email equals one of the identities.
C4_AsStated == CollectDone => (WholeStreamRead /\ ResultAsClaimed)

\* C4 as the code has it: the series is as claimed for every identity set; the
\* stream is consumed whole for a non-empty identity set, and never opened for
\* an empty one.
C4_CollectorCounts ==
    CollectDone =>
        /\ ResultAsClaimed
        /\ IF call.emails = <<>> THEN ~proc.opened ELSE WholeStreamRead

\* a finished run over a stream with two matching commits of one date, a commit
\* of another identity, and a malformed line
C4_Witness ==
    /\ CollectDone
    /\ call.emails # <<>>
    /\ \E d \in DateTokens : Cardinality(Matching(d)) = 2
    /\ \E i \in DOMAIN call.commits :
          IsBlank(call.commits[i]) \/ call.commits[i].email = <<>>
          \/ call.commits[i].email = <<"A@x">>
    /\ Len(ret.value.rows) = 1

----------------------------------------------------------------------------
(* HeatmapApp: the session and its button handlers *)

\* what the repository answers a session: the result of git shortlog -sne ...
SessionShortlogs ==
    { [returncode |-> 128, stdout |-> <<>>],
      [returncode |-> 0,   stdout |-> <<>>],
      [returncode |-> 0,
       stdout |-> AuthorLine(<<"1", "5">>, Alice) \o <<"\n">>
                  \o AuthorLine(<<"1", "2">>, Bob) \o <<"\n">>
                  \o AuthorLine(<<"3">>, Carol) \o <<"\n">>],
      [returncode |-> 0,
       stdout |-> AuthorLine(<<"1", "1">>, Carol) \o <<"\n">>] }

\* ... and the commits git log lists
SessionCommits ==
    { [date |-> "2011-01-01", email |-> <<"a@x">>],
      [date |-> "2012-12-30", email |-> <<"b@x">>] }

SessionHistories == SeqsUpTo(SessionCommits, MaxCommits)

\* sorted(...) of a set of years
RECURSIVE sorted(_)
sorted(S) ==
    IF S = {} THEN <<>>
    ELSE LET m == CHOOSE x \in S : \A y \in S : x <= y IN <<m>> \o sorted(S \ {m})

\* A variant of years_of that lists the years in the order of the rows.
RECURSIVE years_in_row_order(_)
years_in_row_order(df) ==
    IF df.rows = <<>> THEN <<>>
    ELSE LET rest == years_in_row_order([df EXCEPT !.rows = SubSeq(@, 1, Len(@) - 1)])
             y    == dt_year(df.rows[Len(df.rows)].date)
         IN IF y \in Range(rest) THEN rest ELSE Append(rest, y)

\* sorted(self.data['date'].dt.year.unique())
years_of(df) == sorted({dt_year(r.date) : r \in Range(df.rows)})

\* lines 194-199: the emails of the checked authors
RECURSIVE selected_emails(_)
selected_emails(vs) ==
    IF vs = <<>> THEN <<>>
    ELSE LET m == re_search_email(Head(vs).author_str)
         IN (IF Head(vs).value = 1 /\ m.matched THEN <<m.group1>> ELSE <<>>)
            \o selected_emails(Tail(vs))

\* lines 231-233, on the new index and year list
update_navigation_buttons(b, idx, ys) ==
    [b EXCEPT !.prev = IF idx > 0 THEN "normal" ELSE "disabled",
              !.next = IF idx < Len(ys) - 1 THEN "normal" ELSE "disabled"]

\* lines 259-263
clear_canvas ==
    /\ canvas' = "none"
    /\ current_fig' = None

\* lines 222-229: fig is what plot_year(self.data, year) gave, b the state of
\* the buttons the caller leaves. An exception of plot_year ends the handler
\* after the old canvas widget was destroyed.
draw_figure(fig, year, b) ==
    IF fig.raised
    THEN /\ canvas' = IF canvas = "none" THEN "none" ELSE "destroyed"
         /\ UNCHANGED <<current_fig, status_var>>
         /\ buttons' = buttons
    ELSE /\ current_fig' = fig.value
         /\ canvas' = "drawn"
         /\ status_var' = <<"Showing heatmap for year", year>>
         /\ buttons' = [b EXCEPT !.save = "normal"]

\* lines 220-229, on the new data, year list and index
plot_current_year(df, ys, idx, b) == draw_figure(plot_year(df, ys[idx + 1]), ys[idx + 1], b)

\* the user checks or unchecks the Checkbutton of author i
toggle(i) ==
    /\ vars' = [vars EXCEPT ![i].value = 1 - @]
    /\ dialog' = "none"
    /\ UNCHANGED <<authors, data, years, current_year_idx, current_fig, canvas,
                   buttons, status_var, files>>

\* lines 172-190: listed is what get_authors() returned or raised
authors_listed(listed) ==
    /\ dialog' = "none"
    /\ IF listed.raised
       THEN /\ status_var' = <<"Error", listed.error>>
            /\ UNCHANGED <<authors, vars, buttons>>
       ELSE /\ authors' = listed.value
            /\ IF listed.value = <<>>
               THEN /\ vars' = <<>>
                    /\ status_var' = <<"No authors with >=10 commits found.">>
                    /\ UNCHANGED buttons
               ELSE /\ vars' = [i \in DOMAIN listed.value |->
                                   [value |-> 0, author_str |-> listed.value[i][2]]]
                    /\ status_var' = <<"Loaded authors", Len(listed.value)>>
                    /\ buttons' = [buttons EXCEPT !.show = "normal"]
    /\ UNCHANGED <<data, years, current_year_idx, current_fig, canvas, files>>

load_authors(result) == authors_listed(get_authors(result, DefaultMinCommits))

\* lines 215-218: the selection has commits in the years ys
show_years(df, ys) ==
    /\ data' = df
    /\ dialog' = "none"
    /\ years' = ys
    /\ current_year_idx' = 0
    /\ plot_current_year(df, ys, 0, update_navigation_buttons(buttons, 0, ys))
    /\ UNCHANGED <<authors, vars, files>>

\* lines 205-218: df is what get_commit_counts_for_authors returned
show_data(df) ==
    IF empty(df)
    THEN /\ data' = df
         /\ dialog' = "No commits"
         /\ status_var' = <<"No commits found for selection.">>
         /\ clear_canvas
         /\ buttons' = [buttons EXCEPT !.prev = "disabled", !.next = "disabled",
                                       !.save = "disabled"]
         /\ UNCHANGED <<authors, vars, years, current_year_idx, files>>
    ELSE show_years(df, years_of(df))

\* lines 200-218: emails are the selected emails, lines the output of git log
show_selected(emails, lines) ==
    IF emails = <<>>
    THEN /\ dialog' = "No selection"
         /\ UNCHANGED <<authors, vars, data, years, current_year_idx, current_fig,
                        canvas, buttons, status_var, files>>
    ELSE show_data(get_commit_counts_for_authors(emails, lines))

show_heatmap(commits) == show_selected(selected_emails(vars), LogLines(commits))

\* A variant of prev_year that moves the index and does not draw the year.
prev_year_without_redraw ==
    /\ dialog' = "none"
    /\ IF current_year_idx > 0
       THEN /\ current_year_idx' = current_year_idx - 1
            /\ buttons' = update_navigation_buttons(buttons, current_year_idx - 1, years)
            /\ UNCHANGED <<current_fig, canvas, status_var>>
       ELSE UNCHANGED <<current_year_idx, current_fig, canvas, buttons, status_var>>
    /\ UNCHANGED <<authors, vars, data, years, files>>

prev_year ==
    /\ dialog' = "none"
    /\ IF current_year_idx > 0
       THEN /\ current_year_idx' = current_year_idx - 1
            /\ plot_current_year(data, years, current_year_idx - 1,
                   update_navigation_buttons(buttons, current_year_idx - 1, years))
       ELSE UNCHANGED <<current_year_idx, current_fig, canvas, buttons, status_var>>
    /\ UNCHANGED <<authors, vars, data, years, files>>

next_year ==
    /\ dialog' = "none"
    /\ IF current_year_idx < Len(years) - 1
       THEN /\ current_year_idx' = current_year_idx + 1
            /\ plot_current_year(data, years, current_year_idx + 1,
                   update_navigation_buttons(buttons, current_year_idx + 1, years))
       ELSE UNCHANGED <<current_year_idx, current_fig, canvas, buttons, status_var>>
    /\ UNCHANGED <<authors, vars, data, years, files>>

\* lines 247-257: savefig writes heatmaps/heatmap_<year>.png
save_current ==
    IF current_fig = None
    THEN /\ dialog' = "No heatmap"
         /\ UNCHANGED <<authors, vars, data, years, current_year_idx, current_fig,
                        canvas, buttons, status_var, files>>
    ELSE /\ files' = [name   |-> <<"heatmap_", years[current_year_idx + 1], ".png">>,
                      figure |-> current_fig]
         /\ status_var' = <<"Saved heatmap for", years[current_year_idx + 1]>>
         /\ dialog' = "Saved"
         /\ UNCHANGED <<authors, vars, data, years, current_year_idx, current_fig,
                        canvas, buttons>>

----------------------------------------------------------------------------
(* A session. call names the handler that ran last. *)

Init ==
    /\ AppInit
    /\ call = [fn |-> "__init__"]
    /\ proc = NoProc
    /\ date_counts = <<>>
    /\ ret = Pending

Ran(handler) == call' = [fn |-> handler] /\ UNCHANGED <<proc, date_counts, ret>>

\* The handlers, each with what the repository answers it.
CallLoadAuthors ==
    (\E result \in SessionShortlogs : load_authors(result)) /\ Ran("load_authors")

CallShowHeatmap ==
    (\E commits \in SessionHistories : show_heatmap(commits)) /\ Ran("show_heatmap")

CallPrevYear == prev_year /\ Ran("prev_year")

CallNextYear == next_year /\ Ran("next_year")

CallSaveCurrent == save_current /\ Ran("save_current")

ClickCheckbox == (\E i \in DOMAIN vars : toggle(i)) /\ Ran("toggle")

\* The handlers called in any order, whatever the state of their buttons.
HandlersNext ==
    \/ CallLoadAuthors \/ ClickCheckbox \/ CallShowHeatmap
    \/ CallPrevYear \/ CallNextYear \/ CallSaveCurrent

SpecHandlers == Init /\ [][HandlersNext]_state

\* The user's clicks in the window: a disabled button runs no handler.
ClickLoad == CallLoadAuthors

ClickShow == buttons.show = "normal" /\ CallShowHeatmap

ClickPrev == buttons.prev = "normal" /\ CallPrevYear

ClickNext == buttons.next = "normal" /\ CallNextYear

ClickSave == buttons.save = "normal" /\ CallSaveCurrent

Next == ClickLoad \/ ClickCheckbox \/ ClickShow \/ ClickPrev \/ ClickNext \/ ClickSave

Spec == Init /\ [][Next]_state

----------------------------------------------------------------------------
(* Properties of the session *)

\* the distinct years of the dates of a dataset, in increasing order
IsYearListOf(ys, df) ==
    /\ Range(ys) = {civil(r.date)[1] : r \in Range(df.rows)}
    /\ \A i, j \in DOMAIN ys : i < j => ys[i] < ys[j]

Loaded == call'.fn = "show_heatmap" /\ dialog' = "none"

\* C6: a selection with a matching commit puts the index at 0, the earliest of
\* the sorted distinct years; from then on 0 <= index <= len(years) - 1;
\* prev_year at index 0 and next_year at the last index leave the index as it
\* is, and every other prev_year or next_year moves it by exactly one.
C6_NavigationBounded ==
    [][ /\ Loaded =>
            /\ current_year_idx' = 0
            /\ years' # <<>>
            /\ IsYearListOf(years', data')
        /\ years' # <<>> => current_year_idx' \in 0 .. Len(years') - 1
        /\ call'.fn = "prev_year" =>
            /\ years' = years
            /\ current_year_idx' =
                  IF current_year_idx = 0 THEN 0 ELSE current_year_idx - 1
        /\ call'.fn = "next_year" =>
            /\ years' = years
            /\ current_year_idx' =
                  IF current_year_idx >= Len(years) - 1 THEN current_year_idx
                  ELSE current_year_idx + 1
        /\ call'.fn \notin {"show_heatmap", "prev_year", "next_year"} =>
            current_year_idx' = current_year_idx /\ years' = years
      ]_state

\* next_year has reached the last of several years
C6_Witness ==
    /\ call.fn = "next_year"
    /\ Len(years) >= 2
    /\ current_year_idx = Len(years) - 1

\* the action that just ran ended in an error or a warning
EndedInError ==
    \/ call'.fn = "load_authors" /\ status_var' # <<>> /\ status_var'[1] = "Error"
    \/ dialog' \in {"No selection", "No commits", "No heatmap"}

\* C7: an action that ends in an error or a warning leaves the dataset, the
\* year list and the index all as they were, or replaces all three together
\* (the year list that of the new dataset, the index within it).
C7_NoPartialUpdate ==
    [][ EndedInError =>
          \/ data' = data /\ years' = years /\ current_year_idx' = current_year_idx
          \/ /\ IsYearListOf(years', data')
             /\ years' = <<>> => current_year_idx' = 0
             /\ years' # <<>> => current_year_idx' \in 0 .. Len(years') - 1
      ]_state

\* the figure of the year at the index, built from the dataset
FigureOfCurrentYear == plot_year(data, years[current_year_idx + 1])

\* C8: save_current writes a file only when a heatmap is rendered, and warns
\* and writes nothing otherwise; the file is heatmap_<y>.png with y the year at
\* the index, and the figure written is the displayed one, which is the figure
\* of that year built from the current dataset.
C8_SaveWritesCurrentYear ==
    [][ /\ files' # files => call'.fn = "save_current" /\ current_fig # None
        /\ call'.fn = "save_current" =>
              IF current_fig = None
              THEN dialog' = "No heatmap" /\ files' = files
              ELSE /\ files'.name = <<"heatmap_", years[current_year_idx + 1], ".png">>
                   /\ files'.figure = current_fig
                   /\ current_fig.year = years[current_year_idx + 1]
                   /\ ~FigureOfCurrentYear.raised
                   /\ current_fig = FigureOfCurrentYear.value
      ]_state

\* a file was written after the user moved to a later year of a selection
C8_Witness ==
    /\ call.fn = "save_current"
    /\ files # None
    /\ current_year_idx > 0
    /\ files.name = <<"heatmap_", years[current_year_idx + 1], ".png">>

====
